---- MODULE Spec2Model ----
(***************************************************************************)
(* Model of katcipis/loaner: package loan (CreatePlan, CalculateAnnuity)    *)
(* as found in loan/loan.go.  Decimals are modelled as the library keeps    *)
(* them: an arbitrary precision coefficient and a base-10 exponent.  The    *)
(* coefficient is a sequence of base-10^4 limbs, least significant first,    *)
(* because the division precision (16 places) does not fit a machine word.  *)
(*                                                                         *)
(* loan/loan.go holds two revisions of the package one after the other.    *)
(* The model follows the first (lines 1-124): it is the one that defines   *)
(* CreatePlan and takes the duration as an int, as loan_test.go and        *)
(* api/api.go call it.  In that revision CreatePlan fills in the payment    *)
(* dates only; it neither validates its parameters nor computes amounts.   *)
(***************************************************************************)
EXTENDS Integers, Sequences, FiniteSets, TLC

\* ------------------------------------------------------------------------
\* Arbitrary precision naturals (math/big.Int magnitudes): sequences of
\* limbs in base 10^4, least significant limb first, no high zero limbs;
\* zero is << >>.  Carries are propagated limb by limb.
\* ------------------------------------------------------------------------
Base == 10000

LimbDigits == 4

Pow10(k) == CASE k = 0 -> 1 [] k = 1 -> 10 [] k = 2 -> 100 [] k = 3 -> 1000

BNorm(a) ==
  LET nz == {i \in 1..Len(a) : a[i] # 0}
  IN IF nz = {} THEN << >>
     ELSE SubSeq(a, 1, CHOOSE i \in nz : \A j \in nz : j <= i)

RECURSIVE BFromNat(_)
BFromNat(n) == IF n = 0 THEN << >> ELSE <<n % Base>> \o BFromNat(n \div Base)

RECURSIVE BToNat(_)
BToNat(a) == IF a = << >> THEN 0 ELSE a[1] + Base * BToNat(Tail(a))

BIsOdd(a) == a # << >> /\ a[1] % 2 = 1

BLimb(a, i) == IF i <= Len(a) THEN a[i] ELSE 0

BMaxLen(a, b) == IF Len(a) >= Len(b) THEN Len(a) ELSE Len(b)

\* limbs i.. of a + b, given the carry into limb i
RECURSIVE BAddFrom(_, _, _, _)
BAddFrom(a, b, i, c) ==
  IF i > BMaxLen(a, b)
  THEN (IF c = 0 THEN << >> ELSE <<c>>)
  ELSE LET s == BLimb(a, i) + BLimb(b, i) + c
       IN <<s % Base>> \o BAddFrom(a, b, i + 1, s \div Base)

BAdd(a, b) == BAddFrom(a, b, 1, 0)

\* -1, 0 or 1; decided by the highest limb in which a and b differ
BCmp(a, b) ==
  IF Len(a) < Len(b) THEN -1
  ELSE IF Len(a) > Len(b) THEN 1
  ELSE LET diff == {i \in 1..Len(a) : a[i] # b[i]}
       IN IF diff = {} THEN 0
          ELSE LET top == CHOOSE i \in diff : \A j \in diff : j <= i
               IN IF a[top] < b[top] THEN -1 ELSE 1

\* limbs i.. of a - b (a >= b), given the borrow out of limb i - 1
RECURSIVE BSubFrom(_, _, _, _)
BSubFrom(a, b, i, borrow) ==
  IF i > Len(a) THEN << >>
  ELSE LET s == a[i] - BLimb(b, i) - borrow
       IN IF s < 0
          THEN <<s + Base>> \o BSubFrom(a, b, i + 1, 1)
          ELSE <<s>> \o BSubFrom(a, b, i + 1, 0)

BSub(a, b) == BNorm(BSubFrom(a, b, 1, 0))

\* a * Base^k
BShiftLimbs(a, k) == IF a = << >> THEN << >> ELSE [i \in 1..k |-> 0] \o a

\* a * d for one limb d: the low halves of the limb products plus their
\* high halves one limb up
BMulLimb(a, d) ==
  IF d = 0 \/ a = << >> THEN << >>
  ELSE LET lo == [i \in 1..Len(a) |-> (a[i] * d) % Base]
           hi == [i \in 1..Len(a) |-> (a[i] * d) \div Base]
       IN BNorm(BAdd(lo, <<0>> \o hi))

\* the sum of the rows a * b[i] * Base^(i-1) for i in lo..hi
RECURSIVE BMulRows(_, _, _, _)
BMulRows(a, b, lo, hi) ==
  IF lo = hi THEN BShiftLimbs(BMulLimb(a, b[lo]), lo - 1)
  ELSE LET mid == (lo + hi) \div 2
       IN BAdd(BMulRows(a, b, lo, mid), BMulRows(a, b, mid + 1, hi))

BMul(a, b) ==
  IF a = << >> \/ b = << >> THEN << >> ELSE BMulRows(a, b, 1, Len(b))

\* a * 10^k
BShift(a, k) ==
  BShiftLimbs(BMulLimb(a, Pow10(k % LimbDigits)), k \div LimbDigits)

\* <<quotient limbs, remainder>> of the number made of limbs i.. of a,
\* divided by the machine integer d (0 < d < Base)
RECURSIVE BQuoSmallFrom(_, _, _)
BQuoSmallFrom(a, d, i) ==
  IF i > Len(a) THEN << << >>, 0 >>
  ELSE LET prev == BQuoSmallFrom(a, d, i + 1)
           cur  == prev[2] * Base + a[i]
       IN <<(<<cur \div d>> \o prev[1]), cur % d>>

\* a \div 10^k
BDropLow(a, k) ==
  LET limbs == k \div LimbDigits
      rest  == IF limbs >= Len(a) THEN << >> ELSE SubSeq(a, limbs + 1, Len(a))
  IN IF k % LimbDigits = 0 THEN rest
     ELSE BNorm(BQuoSmallFrom(rest, Pow10(k % LimbDigits), 1)[1])

\* the largest limb q in lo..hi with q * b <= r (lo is known to qualify)
RECURSIVE BQuoLimbIn(_, _, _, _)
BQuoLimbIn(r, b, lo, hi) ==
  IF lo = hi THEN lo
  ELSE LET mid == (lo + hi + 1) \div 2
       IN IF BCmp(BMulLimb(b, mid), r) <= 0
          THEN BQuoLimbIn(r, b, mid, hi)
          ELSE BQuoLimbIn(r, b, lo, mid - 1)

\* the quotient limb of r by b, for r < Base * b
BQuoLimb(r, b) == IF BCmp(r, b) < 0 THEN 0 ELSE BQuoLimbIn(r, b, 1, Base - 1)

\* one step of long division: bring down a limb, take the quotient limb
BQuoRemStep(limb, b, st) ==
  LET r1 == BNorm(<<limb>> \o st[2])
      q  == BQuoLimb(r1, b)
  IN <<(<<q>> \o st[1]), BSub(r1, BMulLimb(b, q))>>

\* long division over limbs hi down to lo of a, from the state st =
\* <<quotient so far, remainder so far>>.  The test on `upper` makes the
\* evaluator finish the upper limbs before it enters the lower ones.
RECURSIVE BQuoRemRange(_, _, _, _, _)
BQuoRemRange(a, b, lo, hi, st) ==
  IF lo = hi THEN BQuoRemStep(a[lo], b, st)
  ELSE LET mid   == (lo + hi) \div 2
           upper == BQuoRemRange(a, b, mid + 1, hi, st)
       IN IF Len(upper) = 2
          THEN BQuoRemRange(a, b, lo, mid, upper)
          ELSE upper

\* big.Int.QuoRem for magnitudes, b # 0: <<quotient, remainder>>
BQuoRem(a, b) ==
  IF a = << >> THEN << << >>, << >> >>
  ELSE LET st == BQuoRemRange(a, b, 1, Len(a), << << >>, << >> >>)
       IN <<BNorm(st[1]), st[2]>>

\* ------------------------------------------------------------------------
\* decimal.Decimal (github.com/shopspring/decimal): value = mag * 10^exp,
\* negative iff neg.  Zero always has neg = FALSE.
\* ------------------------------------------------------------------------
DecMake(neg, mag, exp) == [neg |-> neg /\ mag # << >>, mag |-> mag, exp |-> exp]

\* decimal.New(value, exp) for a machine integer value
DecNew(value, exp) ==
  DecMake(value < 0, BFromNat(IF value < 0 THEN -value ELSE value), exp)

\* decimal.NewFromInt
NewFromInt(value) == DecNew(value, 0)

\* decimal.Zero, also the value of an unset Decimal{} field
DecZero == DecNew(0, 0)

DecIsZero(d) == d.mag = << >>

DecSign(d) == IF d.mag = << >> THEN 0 ELSE IF d.neg THEN -1 ELSE 1

DecNeg(d) == DecMake(~d.neg, d.mag, d.exp)

DecAbs(d) == DecMake(FALSE, d.mag, d.exp)

\* Decimal.rescale: same number at another exponent, truncating toward zero
\* when digits are dropped
DecRescale(d, exp) ==
  IF d.exp = exp THEN d
  ELSE IF d.exp > exp THEN DecMake(d.neg, BShift(d.mag, d.exp - exp), exp)
  ELSE DecMake(d.neg, BDropLow(d.mag, exp - d.exp), exp)

DecMinExp(a, b) == IF a.exp <= b.exp THEN a.exp ELSE b.exp

\* Decimal.Cmp: -1, 0, 1
DecCmp(a, b) ==
  LET e  == DecMinExp(a, b)
      ra == DecRescale(a, e)
      rb == DecRescale(b, e)
      sa == DecSign(ra)
      sb == DecSign(rb)
  IN IF sa < sb THEN -1
     ELSE IF sa > sb THEN 1
     ELSE IF sa = 0 THEN 0
     ELSE sa * BCmp(ra.mag, rb.mag)

DecEqual(a, b) == DecCmp(a, b) = 0

LessThanOrEqual(a, b) == DecCmp(a, b) <= 0

\* Decimal.Add
DecAdd(a, b) ==
  LET e  == DecMinExp(a, b)
      ra == DecRescale(a, e)
      rb == DecRescale(b, e)
  IN IF ra.neg = rb.neg THEN DecMake(ra.neg, BAdd(ra.mag, rb.mag), e)
     ELSE IF BCmp(ra.mag, rb.mag) >= 0
          THEN DecMake(ra.neg, BSub(ra.mag, rb.mag), e)
          ELSE DecMake(rb.neg, BSub(rb.mag, ra.mag), e)

\* Decimal.Sub
DecSub(a, b) == DecAdd(a, DecNeg(b))

\* Decimal.Mul: exact, the exponents add
DecMul(a, b) == DecMake(a.neg # b.neg, BMul(a.mag, b.mag), a.exp + b.exp)

\* Decimal.DivRound for d2 # 0 (the library panics on d2 = 0): the quotient
\* truncated at `precision` places, then moved one unit away from zero when
\* twice the remainder reaches the divisor
DecDivRound(d, d2, precision) ==
  LET e    == d.exp - d2.exp + precision
      aa   == IF e < 0 THEN d.mag ELSE BShift(d.mag, e)
      bb   == IF e < 0 THEN BShift(d2.mag, -e) ELSE d2.mag
      qr   == BQuoRem(aa, bb)
      up   == BCmp(BMulLimb(qr[2], 2), bb) >= 0
      qmag == IF up THEN BAdd(qr[1], <<1>>) ELSE qr[1]
  IN DecMake(d.neg # d2.neg, qmag, -precision)

\* decimal.DivisionPrecision, the places Decimal.Div keeps
DivisionPrecision == 16

\* Decimal.Div
DecDiv(d, d2) == DecDivRound(d, d2, DivisionPrecision)

\* Decimal.IntPart: the integer part, truncated toward zero
IntPart(d) ==
  LET n == BToNat(DecRescale(d, 0).mag)
  IN IF d.neg THEN -n ELSE n

\* Decimal.Pow: square-and-multiply on the halved exponent; a negative odd
\* exponent divides by the base
RECURSIVE DecPow(_, _)
DecPow(d, d2) ==
  IF IntPart(d2) = 0 THEN NewFromInt(1)
  ELSE LET temp == DecPow(d, DecDiv(d2, NewFromInt(2)))
           sq   == DecMul(temp, temp)
       IN IF IntPart(d2) % 2 = 0 THEN sq
          ELSE IF IntPart(d2) > 0 THEN DecMul(sq, d)
          ELSE DecDiv(sq, d)

\* Decimal.Round: half away from zero at `places`, decided on the digit
\* that remains after truncating to places + 1
DecRound(d, places) ==
  IF d.exp = -places THEN d
  ELSE LET ret == DecRescale(d, -places - 1)
           v5  == BAdd(ret.mag, <<5>>)
       IN DecMake(ret.neg, BDropLow(v5, 1), -places)

\* Decimal.RoundBank: Round, then an exact tie on an odd last digit steps
\* back to the even neighbour
RoundBank(d, places) ==
  LET round     == DecRound(d, places)
      remainder == DecAbs(DecSub(d, round))
      half      == DecNew(5, -places - 1)
  IN IF DecCmp(remainder, half) = 0 /\ BIsOdd(round.mag)
     THEN DecMake(round.neg, BSub(round.mag, <<1>>), round.exp)
     ELSE round

\* ------------------------------------------------------------------------
\* Go strings that are parsed or produced: sequences of one-character
\* strings
\* ------------------------------------------------------------------------
Digits == <<"0", "1", "2", "3", "4", "5", "6", "7", "8", "9">>

IsDigit(c) == \E i \in 1..10 : Digits[i] = c

DigitVal(c) == (CHOOSE i \in 1..10 : Digits[i] = c) - 1

AllDigits(s) == \A i \in 1..Len(s) : IsDigit(s[i])

\* the value of at most four digits
SmallNat(s) ==
  LET n == Len(s)
      v(i) == IF i <= n THEN DigitVal(s[n + 1 - i]) ELSE 0
  IN v(1) + 10 * v(2) + 100 * v(3) + 1000 * v(4)

\* n as exactly `width` digits, width <= 4
PadNat(n, width) ==
  [i \in 1..width |-> Digits[((n \div Pow10(width - i)) % 10) + 1]]

\* the first index of s holding a character of set cs, 0 if there is none
IndexAny(s, cs) ==
  LET at == {i \in 1..Len(s) : s[i] \in cs}
  IN IF at = {} THEN 0 ELSE CHOOSE i \in at : \A j \in at : i <= j

Count(s, c) == Cardinality({i \in 1..Len(s) : s[i] = c})

\* s without its characters c
Without(s, c) == SelectSeq(s, LAMBDA x : x # c)

\* a run of digits as a magnitude, four digits to the limb
BFromDigits(s) ==
  LET n == Len(s)
      limb(k) ==
        LET hi == n - LimbDigits * (k - 1)
            lo == IF hi - LimbDigits + 1 < 1 THEN 1 ELSE hi - LimbDigits + 1
        IN SmallNat(SubSeq(s, lo, hi))
  IN BNorm([k \in 1..((n + LimbDigits - 1) \div LimbDigits) |-> limb(k)])

\* big.Int.String of a magnitude: no leading zeros, "0" for zero
RECURSIVE BToDigits(_)
BToDigits(a) ==
  IF a = << >> THEN <<"0">>
  ELSE IF Len(a) = 1
  THEN LET w == IF a[1] >= 1000 THEN 4 ELSE IF a[1] >= 100 THEN 3
                ELSE IF a[1] >= 10 THEN 2 ELSE 1
       IN PadNat(a[1], w)
  ELSE BToDigits(Tail(a)) \o PadNat(a[1], LimbDigits)

\* an optional sign followed by at least one digit (big.Int.SetString and
\* strconv.ParseInt in base 10)
IsSignedDigits(s) ==
  LET body == IF s # << >> /\ s[1] \in {"+", "-"} THEN Tail(s) ELSE s
  IN body # << >> /\ AllDigits(body)

SignedNeg(s) == s # << >> /\ s[1] = "-"

SignedBody(s) == IF s # << >> /\ s[1] \in {"+", "-"} THEN Tail(s) ELSE s

\* decimal.NewFromString: an exponent after e or E, at most one point, the
\* remaining characters read by big.Int.SetString; ok is FALSE when the
\* library returns an error.  Exponents of up to four digits are read
\* (strconv.ParseInt reads any 32-bit exponent)
NewFromString(value) ==
  LET eIndex   == IndexAny(value, {"e", "E"})
      expStr   == IF eIndex = 0 THEN << >>
                  ELSE SubSeq(value, eIndex + 1, Len(value))
      expOk    == eIndex = 0
                  \/ (IsSignedDigits(expStr)
                      /\ Len(SignedBody(expStr)) <= 4)
      expInt   == IF eIndex = 0 \/ ~expOk THEN 0
                  ELSE IF SignedNeg(expStr) THEN -SmallNat(SignedBody(expStr))
                  ELSE SmallNat(SignedBody(expStr))
      mantissa == IF eIndex = 0 THEN value ELSE SubSeq(value, 1, eIndex - 1)
      points   == Count(mantissa, ".")
      point    == IndexAny(mantissa, {"."})
      intStr   == Without(mantissa, ".")
      exp      == IF points = 1 THEN expInt - (Len(mantissa) - point)
                  ELSE expInt
      ok       == expOk /\ points <= 1 /\ IsSignedDigits(intStr)
  IN IF ok
     THEN [ok |-> TRUE,
           d |-> DecMake(SignedNeg(intStr), BFromDigits(SignedBody(intStr)),
                         exp)]
     ELSE [ok |-> FALSE, d |-> DecZero]

\* s without its trailing "0" characters
TrimZeros(s) ==
  LET nz == {i \in 1..Len(s) : s[i] # "0"}
  IN IF nz = {} THEN << >>
     ELSE SubSeq(s, 1, CHOOSE i \in nz : \A j \in nz : j <= i)

\* Decimal.String: the digits with the point placed by the exponent,
\* trailing zeros of the fraction trimmed, no point for an integer
DecString(d) ==
  IF d.exp >= 0
  THEN (IF d.neg THEN <<"-">> ELSE << >>) \o BToDigits(BShift(d.mag, d.exp))
  ELSE LET str      == BToDigits(d.mag)
           places   == -d.exp
           intPart  == IF Len(str) > places
                       THEN SubSeq(str, 1, Len(str) - places) ELSE <<"0">>
           fraction == IF Len(str) > places
                       THEN SubSeq(str, Len(str) - places + 1, Len(str))
                       ELSE [i \in 1..(places - Len(str)) |-> "0"] \o str
           trimmed  == TrimZeros(fraction)
           number   == IF trimmed = << >> THEN intPart
                       ELSE intPart \o <<".">> \o trimmed
       IN IF d.neg THEN <<"-">> \o number ELSE number

\* ------------------------------------------------------------------------
\* package loan
\* ------------------------------------------------------------------------
ErrInvalidParameter == "invalid parameter"

\* the nil error
NilError == [sentinel |-> "nil", param |-> "", value |-> << >>]

\* fmt.Errorf("can't calculate annuity:%w: <param> should be bigger than 0,
\* it is %v", ErrInvalidParameter, value): errors.Is finds the sentinel
WrapInvalid(param, value) ==
  [sentinel |-> ErrInvalidParameter, param |-> param, value |-> value]

\* errors.Is(err, target)
ErrorsIs(err, target) == err.sentinel = target

\* what a call does: returns (kind "return") or aborts (kind "panic")
Returned(value, err) == [kind |-> "return", value |-> value, err |-> err]

Panicked(msg) == [kind |-> "panic", value |-> msg, err |-> NilError]

\* variant: the division by 12 keeps one decimal place more
calculateMonthlyInterestRateLonger(annualInterestRate) ==
  DecDivRound(annualInterestRate, NewFromInt(12), DivisionPrecision + 1)

calculateMonthlyInterestRate(annualInterestRate) ==
  DecDiv(annualInterestRate, NewFromInt(12))

\* variant: the percentage is divided by 10
fromPercentToDecimalByTen(percentVal) == DecDiv(percentVal, NewFromInt(10))

fromPercentToDecimal(percentVal) == DecDiv(percentVal, NewFromInt(100))

precision == 2

\* variant: the numerator is not divided, so the result is the interest of
\* one month on the whole loan
CalculateAnnuityInterestOnly(totalLoanAmount, annualInterestRate, durationInMonths) ==
  IF durationInMonths <= 0
  THEN Returned(DecZero, WrapInvalid("duration", durationInMonths))
  ELSE IF LessThanOrEqual(totalLoanAmount, DecZero)
  THEN Returned(DecZero, WrapInvalid("loan amount", totalLoanAmount))
  ELSE IF LessThanOrEqual(annualInterestRate, DecZero)
  THEN Returned(DecZero, WrapInvalid("interest rate", annualInterestRate))
  ELSE Returned(
         RoundBank(DecMul(totalLoanAmount,
                          fromPercentToDecimal(
                            calculateMonthlyInterestRate(annualInterestRate))),
                   precision),
         NilError)

\* variant: the interest rate is checked first, the duration last
CalculateAnnuityRateFirst(totalLoanAmount, annualInterestRate, durationInMonths) ==
  IF LessThanOrEqual(annualInterestRate, DecZero)
  THEN Returned(DecZero, WrapInvalid("interest rate", annualInterestRate))
  ELSE IF LessThanOrEqual(totalLoanAmount, DecZero)
  THEN Returned(DecZero, WrapInvalid("loan amount", totalLoanAmount))
  ELSE IF durationInMonths <= 0
  THEN Returned(DecZero, WrapInvalid("duration", durationInMonths))
  ELSE LET monthlyInterestRate ==
             fromPercentToDecimal(calculateMonthlyInterestRate(annualInterestRate))
           one         == NewFromInt(1)
           numerator   == DecMul(totalLoanAmount, monthlyInterestRate)
           base        == DecAdd(one, monthlyInterestRate)
           power       == DecPow(base, DecNeg(NewFromInt(durationInMonths)))
           denominator == DecSub(one, power)
       IN IF DecIsZero(denominator)
          THEN Panicked("decimal division by 0")
          ELSE Returned(RoundBank(DecDiv(numerator, denominator), precision),
                        NilError)

CalculateAnnuity(totalLoanAmount, annualInterestRate, durationInMonths) ==
  IF durationInMonths <= 0
  THEN Returned(DecZero, WrapInvalid("duration", durationInMonths))
  ELSE IF LessThanOrEqual(totalLoanAmount, DecZero)
  THEN Returned(DecZero, WrapInvalid("loan amount", totalLoanAmount))
  ELSE IF LessThanOrEqual(annualInterestRate, DecZero)
  THEN Returned(DecZero, WrapInvalid("interest rate", annualInterestRate))
  ELSE LET monthlyInterestRate ==
             fromPercentToDecimal(calculateMonthlyInterestRate(annualInterestRate))
           one         == NewFromInt(1)
           numerator   == DecMul(totalLoanAmount, monthlyInterestRate)
           base        == DecAdd(one, monthlyInterestRate)
           power       == DecPow(base, DecNeg(NewFromInt(durationInMonths)))
           denominator == DecSub(one, power)
       IN IF DecIsZero(denominator)
          THEN Panicked("decimal division by 0")
          ELSE Returned(RoundBank(DecDiv(numerator, denominator), precision),
                        NilError)

\* ------------------------------------------------------------------------
\* time.Time as the fields of its wall clock in its own location; offset is
\* the location's offset east of UTC in seconds
\* ------------------------------------------------------------------------
UTC == 0

isLeap(year) == year % 4 = 0 /\ (year % 100 # 0 \/ year % 400 = 0)

\* days in a month (time.daysBefore and the leap day of February)
daysIn(month, year) ==
  IF month = 2 THEN (IF isLeap(year) THEN 29 ELSE 28)
  ELSE IF month \in {4, 6, 9, 11} THEN 30 ELSE 31

\* a day past the end of its month rolls into the following month(s)
RECURSIVE rollDay(_, _, _)
rollDay(year, month, day) ==
  IF day <= daysIn(month, year)
  THEN [year |-> year, month |-> month, day |-> day]
  ELSE IF month = 12
  THEN rollDay(year + 1, 1, day - daysIn(month, year))
  ELSE rollDay(year, month + 1, day - daysIn(month, year))

\* time.Date for month >= 1, day >= 1 and an in-range time of day: the
\* month is normalised into 1..12, overflowing into the year, then the day
\* is counted from the first of that month
TimeDate(year, month, day, hour, min, sec, nsec, loc) ==
  LET m == month - 1
      d == rollDay(year + (m \div 12), (m % 12) + 1, day)
  IN [year |-> d.year, month |-> d.month, day |-> d.day, hour |-> hour,
      min |-> min, sec |-> sec, nsec |-> nsec, offset |-> loc]

\* Payment{Date: date}: every other field keeps its zero value
Payment(date) ==
  [Date |-> date, PaymentAmount |-> DecZero, Interest |-> DecZero,
   Principal |-> DecZero, InitialOutstandingPrincipal |-> DecZero,
   RemainingOutstandingPrincipal |-> DecZero]

\* the date of payment i (0-based): the start's year, month + i and day in
\* the start's own location, at midnight UTC
paymentDate(start, i) ==
  TimeDate(start.year, start.month + i, start.day, 0, 0, 0, 0, UTC)

\* variant: the balance is carried from payment to payment but no
\* principal is ever deducted from it
CreatePlanKeepsBalance(totalLoanAmount, annualInterestRate, durationInMonths, start) ==
  IF durationInMonths < 0
  THEN Panicked("makeslice: len out of range")
  ELSE Returned(
         [i \in 1..durationInMonths |->
            [Payment(paymentDate(start, i - 1)) EXCEPT
               !.InitialOutstandingPrincipal = totalLoanAmount,
               !.RemainingOutstandingPrincipal = totalLoanAmount]],
         NilError)

\* variant: the start day check is off by one and refuses day 28
CreatePlanRejectsDay28(totalLoanAmount, annualInterestRate, durationInMonths, start) ==
  IF start.day >= 28
  THEN Returned(<< >>, WrapInvalid("start date", start.day))
  ELSE IF durationInMonths < 0
  THEN Panicked("makeslice: len out of range")
  ELSE Returned(
         [i \in 1..durationInMonths |-> Payment(paymentDate(start, i - 1))],
         NilError)

\* variant: the slice is made one payment short
CreatePlanOneShort(totalLoanAmount, annualInterestRate, durationInMonths, start) ==
  IF durationInMonths - 1 < 0
  THEN Panicked("makeslice: len out of range")
  ELSE Returned(
         [i \in 1..(durationInMonths - 1) |->
            Payment(paymentDate(start, i - 1))],
         NilError)

\* variant: every payment starts from the whole loan amount again
CreatePlanFreshBalance(totalLoanAmount, annualInterestRate, durationInMonths, start) ==
  IF durationInMonths < 0
  THEN Panicked("makeslice: len out of range")
  ELSE Returned(
         [i \in 1..durationInMonths |->
            [Payment(paymentDate(start, i - 1)) EXCEPT
               !.InitialOutstandingPrincipal = totalLoanAmount]],
         NilError)

\* variant: the payment amount is filled in, its split is not
CreatePlanAmountOnly(totalLoanAmount, annualInterestRate, durationInMonths, start) ==
  IF durationInMonths < 0
  THEN Panicked("makeslice: len out of range")
  ELSE Returned(
         [i \in 1..durationInMonths |->
            [Payment(paymentDate(start, i - 1)) EXCEPT
               !.PaymentAmount = totalLoanAmount]],
         NilError)

\* variant: the month is not advanced
CreatePlanSameMonth(totalLoanAmount, annualInterestRate, durationInMonths, start) ==
  IF durationInMonths < 0
  THEN Panicked("makeslice: len out of range")
  ELSE Returned(
         [i \in 1..durationInMonths |-> Payment(paymentDate(start, 0))],
         NilError)

\* variant: the start's time of day and offset are kept on the payment dates
CreatePlanKeepsClock(totalLoanAmount, annualInterestRate, durationInMonths, start) ==
  IF durationInMonths < 0
  THEN Panicked("makeslice: len out of range")
  ELSE Returned(
         [i \in 1..durationInMonths |->
            Payment(TimeDate(start.year, start.month + (i - 1), start.day,
                             start.hour, start.min, start.sec, start.nsec,
                             start.offset))],
         NilError)

\* variant: every payment carries interest on the whole loan amount, the
\* rate times the amount, its balances being left unset
CreatePlanInterestOnLoan(totalLoanAmount, annualInterestRate, durationInMonths, start) ==
  IF durationInMonths < 0
  THEN Panicked("makeslice: len out of range")
  ELSE Returned(
         [i \in 1..durationInMonths |->
            [Payment(paymentDate(start, i - 1)) EXCEPT
               !.Interest = DecMul(annualInterestRate, totalLoanAmount)]],
         NilError)

\* variant: every payment deducts the whole loan amount from what is left
CreatePlanDeductsLoan(totalLoanAmount, annualInterestRate, durationInMonths, start) ==
  IF durationInMonths < 0
  THEN Panicked("makeslice: len out of range")
  ELSE Returned(
         [i \in 1..durationInMonths |->
            [Payment(paymentDate(start, i - 1)) EXCEPT
               !.Principal = totalLoanAmount,
               !.InitialOutstandingPrincipal =
                 IF i = 1 THEN totalLoanAmount ELSE DecZero,
               !.RemainingOutstandingPrincipal =
                 IF i = 1 THEN DecZero ELSE DecNeg(totalLoanAmount)]],
         NilError)

\* make([]Payment, durationInMonths) aborts on a negative length; the loop
\* then fills in the date of each payment
CreatePlan(totalLoanAmount, annualInterestRate, durationInMonths, start) ==
  IF durationInMonths < 0
  THEN Panicked("makeslice: len out of range")
  ELSE Returned(
         [i \in 1..durationInMonths |-> Payment(paymentDate(start, i - 1))],
         NilError)

\* ------------------------------------------------------------------------
\* time.Parse and Time.Format with the layout time.RFC3339,
\* "2006-01-02T15:04:05Z07:00"
\* ------------------------------------------------------------------------
At(s, i) == IF i >= 1 /\ i <= Len(s) THEN s[i] ELSE ""

Take(s, i, n) == IF i >= 1 /\ i + n - 1 <= Len(s) THEN SubSeq(s, i, i + n - 1) ELSE << >>

\* exactly n digits at position i
IsNum(s, i, n) == Take(s, i, n) # << >> /\ AllDigits(Take(s, i, n))

\* how many digits stand at positions i, i + 1, ...
RECURSIVE DigitRun(_, _)
DigitRun(s, i) == IF IsDigit(At(s, i)) THEN 1 + DigitRun(s, i + 1) ELSE 0

\* a fraction of a second, given by its first digits, in nanoseconds
RECURSIVE Nanoseconds(_, _)
Nanoseconds(s, unit) ==
  IF s = << >> \/ unit = 0 THEN 0
  ELSE DigitVal(s[1]) * unit + Nanoseconds(Tail(s), unit \div 10)

\* time.Parse(time.RFC3339, value): a four digit year, two digit month and
\* day, an hour of one or two digits, two digit minute and second, an
\* optional fraction after "." or ",", then "Z" or a signed hh:mm offset;
\* the month, day, hour, minute and second must be in range.  ok is FALSE
\* when the library returns an error
ParseRFC3339(value) ==
  LET hourLen == IF IsDigit(At(value, 13)) THEN 2 ELSE 1
      c       == 12 + hourLen
      frac    == IF At(value, c + 6) \in {".", ","}
                 THEN DigitRun(value, c + 7) ELSE 0
      z       == IF frac = 0 THEN c + 6 ELSE c + 7 + frac
      shape   == /\ IsNum(value, 1, 4) /\ At(value, 5) = "-"
                 /\ IsNum(value, 6, 2) /\ At(value, 8) = "-"
                 /\ IsNum(value, 9, 2) /\ At(value, 11) = "T"
                 /\ IsNum(value, 12, hourLen) /\ At(value, c) = ":"
                 /\ IsNum(value, c + 1, 2) /\ At(value, c + 3) = ":"
                 /\ IsNum(value, c + 4, 2)
                 /\ \/ At(value, z) = "Z" /\ Len(value) = z
                    \/ /\ At(value, z) \in {"+", "-"}
                       /\ IsNum(value, z + 1, 2) /\ At(value, z + 3) = ":"
                       /\ IsNum(value, z + 4, 2) /\ Len(value) = z + 5
      year    == SmallNat(Take(value, 1, 4))
      month   == SmallNat(Take(value, 6, 2))
      day     == SmallNat(Take(value, 9, 2))
      hour    == SmallNat(Take(value, 12, hourLen))
      min     == SmallNat(Take(value, c + 1, 2))
      sec     == SmallNat(Take(value, c + 4, 2))
      nsec    == IF frac = 0 THEN 0
                 ELSE Nanoseconds(Take(value, c + 7, frac), 100000000)
      east    == (SmallNat(Take(value, z + 1, 2)) * 60
                  + SmallNat(Take(value, z + 4, 2))) * 60
      offset  == IF At(value, z) = "Z" THEN UTC
                 ELSE IF At(value, z) = "-" THEN -east ELSE east
      ok      == /\ shape
                 /\ month \in 1..12
                 /\ day >= 1 /\ day <= daysIn(month, year)
                 /\ hour < 24 /\ min < 60 /\ sec < 60
  IN IF ok
     THEN [ok |-> TRUE,
           t |-> [year |-> year, month |-> month, day |-> day,
                  hour |-> hour, min |-> min, sec |-> sec, nsec |-> nsec,
                  offset |-> offset]]
     ELSE [ok |-> FALSE,
           t |-> [year |-> 1, month |-> 1, day |-> 1, hour |-> 0, min |-> 0,
                  sec |-> 0, nsec |-> 0, offset |-> UTC]]

\* Time.Format(time.RFC3339) for a year of four digits: the wall clock in
\* the time's own location, then "Z" for offset 0 or the signed hh:mm
\* offset; nanoseconds are not printed
FormatRFC3339(t) ==
  LET abs  == IF t.offset < 0 THEN -t.offset ELSE t.offset
      zone == IF t.offset = 0 THEN <<"Z">>
              ELSE <<IF t.offset < 0 THEN "-" ELSE "+">>
                   \o PadNat(abs \div 3600, 2) \o <<":">>
                   \o PadNat((abs % 3600) \div 60, 2)
  IN PadNat(t.year, 4) \o <<"-">> \o PadNat(t.month, 2) \o <<"-">>
     \o PadNat(t.day, 2) \o <<"T">> \o PadNat(t.hour, 2) \o <<":">>
     \o PadNat(t.min, 2) \o <<":">> \o PadNat(t.sec, 2) \o zone

\* ------------------------------------------------------------------------
\* package api: the handler of POST /loan-plan
\* ------------------------------------------------------------------------
StatusOK == 200

StatusBadRequest == 400

StatusMethodNotAllowed == 405

StatusInternalServerError == 500

MethodPost == "POST"

\* a JSON value as encoding/json sees it: its type, the text of a string,
\* the value of an integral number
JString(text) == [type |-> "string", text |-> text, num |-> 0]

JNumber(n) == [type |-> "number", text |-> << >>, num |-> n]

\* a number with a fraction, a JSON null, a member that is not there
JFraction == [type |-> "fraction", text |-> << >>, num |-> 0]

JNull == [type |-> "null", text |-> << >>, num |-> 0]

JAbsent == [type |-> "absent", text |-> << >>, num |-> 0]

\* the four members of a request object that the decoder looks at
EmptyObject ==
  [loanAmount |-> JAbsent, nominalRate |-> JAbsent, duration |-> JAbsent,
   startDate |-> JAbsent]

\* what a request body is made of, in the order the decoder meets it: JSON
\* values (an object with its members, null, an array) and bytes that
\* start no JSON value
JObject(members) == [json |-> "object", members |-> members]

JTopNull == [json |-> "null", members |-> EmptyObject]

JArray == [json |-> "array", members |-> EmptyObject]

Garbage == [json |-> "garbage", members |-> EmptyObject]

\* CreateLoanPlanRequest{}
ZeroRequest ==
  [LoanAmount |-> << >>, NominalRate |-> << >>, Duration |-> 0,
   StartDate |-> << >>]

\* a string field takes a JSON string, keeps "" for null or a missing
\* member, and is a type error for anything else
StringFieldOk(v) == v.type \in {"string", "null", "absent"}

\* an int field takes an integral number, keeps 0 for null or a missing
\* member
IntFieldOk(v) == v.type \in {"number", "null", "absent"}

\* json.NewDecoder(req.Body).Decode(&parsedReq): reads the first JSON value
\* of the body and nothing after it; io.EOF on an empty body, a syntax error
\* on bytes that start no value, a type error when the value or one of its
\* members does not fit the struct
Decode(body) ==
  IF body = << >> \/ body[1].json \in {"garbage", "array"}
  THEN [ok |-> FALSE, req |-> ZeroRequest]
  ELSE IF body[1].json = "null" THEN [ok |-> TRUE, req |-> ZeroRequest]
  ELSE LET m == body[1].members
       IN IF /\ StringFieldOk(m.loanAmount) /\ StringFieldOk(m.nominalRate)
             /\ IntFieldOk(m.duration) /\ StringFieldOk(m.startDate)
          THEN [ok |-> TRUE,
                req |-> [LoanAmount |-> m.loanAmount.text,
                         NominalRate |-> m.nominalRate.text,
                         Duration |-> m.duration.num,
                         StartDate |-> m.startDate.text]]
          ELSE [ok |-> FALSE, req |-> ZeroRequest]

\* err.Error(), as the pieces of its text
ErrorText(err) ==
  IF err.param = "" THEN <<err.sentinel>>
  ELSE IF err.sentinel = ErrInvalidParameter
  THEN <<"can't calculate annuity:", err.sentinel, ": ", err.param,
         " should be bigger than 0, it is %v">>
  ELSE <<err.param>>

\* ErrorResponse{Error: Error{Message: message}} as JSON
newErrorResponse(message) == [error |-> [message |-> message]]

\* a response: the status given to WriteHeader and the body written
Response(status, body) == [status |-> status, body |-> body]

\* the connection of a handler that panicked is closed without a response
NoResponse == [status |-> 0, body |-> << >>]

handleFieldParsingError(fieldName) ==
  Response(StatusBadRequest,
           newErrorResponse(<<"can't parse ", fieldName, " from request:%v">>))

\* variant: every entry is built from the first payment
toBorrowerPaymentsFirstOnly(payments) ==
  [i \in 1..Len(payments) |->
     [date |-> FormatRFC3339(payments[1].Date),
      borrowerPaymentAmount |-> DecString(payments[1].PaymentAmount),
      interest |-> DecString(payments[1].Interest),
      principal |-> DecString(payments[1].Principal),
      initialOutstandingPrincipal |->
        DecString(payments[1].InitialOutstandingPrincipal),
      remainingOutstandingPrincipal |->
        DecString(payments[1].RemainingOutstandingPrincipal)]]

toBorrowerPayments(payments) ==
  [i \in 1..Len(payments) |->
     [date |-> FormatRFC3339(payments[i].Date),
      borrowerPaymentAmount |-> DecString(payments[i].PaymentAmount),
      interest |-> DecString(payments[i].Interest),
      principal |-> DecString(payments[i].Principal),
      initialOutstandingPrincipal |->
        DecString(payments[i].InitialOutstandingPrincipal),
      remainingOutstandingPrincipal |->
        DecString(payments[i].RemainingOutstandingPrincipal)]]

\* variant: GET is let through as well
methodNotAllowedButGet(method) == method \notin {MethodPost, "GET"}

\* req.Method != http.MethodPost
methodNotAllowed(method) == method # MethodPost

\* variant: only the sentinel itself, unwrapped, is a bad request
creatorErrorResponseNoUnwrap(err) ==
  IF err.sentinel = ErrInvalidParameter /\ err.param = ""
  THEN Response(StatusBadRequest, newErrorResponse(ErrorText(err)))
  ELSE Response(StatusInternalServerError,
                newErrorResponse(<<"internal server error">>))

\* the answer to a non-nil error of the plan creator
creatorErrorResponse(err) ==
  IF ErrorsIs(err, ErrInvalidParameter)
  THEN Response(StatusBadRequest, newErrorResponse(ErrorText(err)))
  ELSE Response(StatusInternalServerError,
                newErrorResponse(<<"internal server error">>))

\* a LoanPlanCreator: loan.CreatePlan, or a function that returns the
\* payments and the error it was built with whatever it is given
Inject(payments, err) == [kind |-> "inject", payments |-> payments, err |-> err]

LoanCreatePlan == [kind |-> "loan.CreatePlan", payments |-> << >>, err |-> NilError]

createLoanPlan(creator, totalLoanAmount, annualInterestRate, durationInMonths, start) ==
  IF creator.kind = "inject" THEN Returned(creator.payments, creator.err)
  ELSE CreatePlan(totalLoanAmount, annualInterestRate, durationInMonths, start)

\* the handler registered by New(createLoanPlan): the response, whether the
\* body was handed to the decoder, and the calls made to the plan creator
Handled(res, decoded, calls) == [res |-> res, decoded |-> decoded, calls |-> calls]

\* api.go:110-145: the plan creator is called with the parsed request; a
\* panic of the creator leaves no response, an error is answered by
\* creatorErrorResponse, a plan by its borrower payments
serveCreated(call) ==
  IF call.result.kind = "panic"
  THEN Handled(NoResponse, TRUE, <<call>>)
  ELSE IF call.result.err.sentinel # NilError.sentinel
  THEN Handled(creatorErrorResponse(call.result.err), TRUE, <<call>>)
  ELSE Handled(Response(StatusOK,
                 [borrowerPayments |-> toBorrowerPayments(call.result.value)]),
               TRUE, <<call>>)

\* api.go:92-110: the three fields are checked in the order loanAmount,
\* nominalRate, startDate; the first that does not parse is answered 400
serveParsed(creator, duration, loanAmount, rate, startDate) ==
  IF ~loanAmount.ok
  THEN Handled(handleFieldParsingError("loanAmount"), TRUE, << >>)
  ELSE IF ~rate.ok
  THEN Handled(handleFieldParsingError("nominalRate"), TRUE, << >>)
  ELSE IF ~startDate.ok
  THEN Handled(handleFieldParsingError("startDate"), TRUE, << >>)
  ELSE serveCreated(
         [totalLoanAmount |-> loanAmount.d,
          annualInterestRate |-> rate.d,
          durationInMonths |-> duration,
          start |-> startDate.t,
          result |-> createLoanPlan(creator, loanAmount.d, rate.d, duration,
                                    startDate.t)])

\* api.go:83-108: a body that does not decode is answered 400
serveDecoded(creator, parsed) ==
  IF ~parsed.ok
  THEN Handled(Response(StatusBadRequest,
                 newErrorResponse(<<"cant parse request body as JSON:%v">>)),
               TRUE, << >>)
  ELSE serveParsed(creator, parsed.req.Duration,
                   NewFromString(parsed.req.LoanAmount),
                   NewFromString(parsed.req.NominalRate),
                   ParseRFC3339(parsed.req.StartDate))

ServeLoanPlan(creator, method, body) ==
  IF methodNotAllowed(method)
  THEN Handled(Response(StatusMethodNotAllowed,
                        newErrorResponse(<<"method ", method, " is not allowed">>)),
               FALSE, << >>)
  ELSE serveDecoded(creator, Decode(body))

\* ------------------------------------------------------------------------
\* The calls made on the package: one call per behaviour, with its
\* arguments drawn from the sets below
\* ------------------------------------------------------------------------
VARIABLES pc, fn, totalLoanAmount, annualInterestRate, durationInMonths,
          start, out, creator, method, body, res, decoded, calls,
          threads, heap

vars == <<pc, fn, totalLoanAmount, annualInterestRate, durationInMonths,
          start, out, creator, method, body, res, decoded, calls,
          threads, heap>>

\* durations tried: -MaxNegDuration..MaxDuration and one long plan
MaxDuration == 3

MaxNegDuration == 2

LongDuration == 24

\* the duration of the annuity test's first case
AnnuityTestDuration == 24

Durations ==
  (-MaxNegDuration..MaxDuration) \cup {LongDuration, AnnuityTestDuration}

\* "-10.00", "0.00", "0.01", "1.0", "2000.0", "5000.0" as
\* decimal.NewFromString reads them
Amounts ==
  {DecNew(-1000, -2), DecNew(0, -2), DecNew(1, -2), DecNew(10, -1),
   DecNew(20000, -1), DecNew(50000, -1)}

\* "-1.0", "0", "0.00000000000000000001", "0.0012", "0.1", "1.0", "5.0" and
\* "12.000000000000059"
Rates ==
  {DecNew(-10, -1), DecNew(0, 0), DecNew(1, -20), DecNew(12, -4),
   DecNew(1, -1), DecNew(10, -1), DecNew(50, -1),
   DecMake(FALSE, <<59, 0, 0, 2000, 1>>, -15)}

\* start dates as time.Parse(time.RFC3339, ...) reads them: midnight UTC,
\* noon at +01:00, and two clocks whose UTC instant falls on another day
\* (midnight at +01:00, 23:00 at -01:00)
Clocks == {<<0, UTC>>, <<12, 3600>>, <<0, 3600>>, <<23, -3600>>}

StartDates ==
  {[year |-> y, month |-> m, day |-> d, hour |-> c[1], min |-> 0,
    sec |-> 0, nsec |-> 0, offset |-> c[2]] :
     y \in {2018, 2020}, m \in {1, 2, 12}, d \in {1, 15, 28, 29, 30, 31},
     c \in Clocks}

\* the zero time.Time
ZeroTime ==
  [year |-> 1, month |-> 1, day |-> 1, hour |-> 0, min |-> 0, sec |-> 0,
   nsec |-> 0, offset |-> UTC]

NoCall == [kind |-> "none", value |-> << >>, err |-> NilError]

\* the request of the handler tests: "1000.00", "5.0", 1 and
\* "2020-12-01T00:00:00Z"
ValidLoanAmount == <<"1", "0", "0", "0", ".", "0", "0">>

ValidNominalRate == <<"5", ".", "0">>

ValidStartDate == <<"2", "0", "2", "0", "-", "1", "2", "-", "0", "1", "T", "0", "0", ":", "0", "0", ":", "0", "0", "Z">>

ValidMembers ==
  [loanAmount |-> JString(ValidLoanAmount),
   nominalRate |-> JString(ValidNominalRate),
   duration |-> JNumber(1),
   startDate |-> JString(ValidStartDate)]

\* "notADecimal", "", "1.0.0", "1e3", ".5", and a number instead of a string
LoanAmountValues ==
  {JString(<<"n", "o", "t", "A", "D", "e", "c", "i", "m", "a", "l">>), JString(<< >>), JString(<<"1", ".", "0", ".", "0">>), JString(<<"1", "e", "3">>), JString(<<".", "5">>),
   JNumber(1000), JAbsent}

\* "wrongValue", "-5.0" and null
NominalRateValues == {JString(<<"w", "r", "o", "n", "g", "V", "a", "l", "u", "e">>), JString(<<"-", "5", ".", "0">>), JNull}

\* other durations, a string, a number with a fraction, no member at all
DurationValues ==
  {JNumber(0), JNumber(-1), JNumber(2), JString(<<"1">>), JFraction, JAbsent}

\* "notDate", "2018-01-01T12:00:00+01:00", "2020-12-01T0:00:00Z",
\* "2020-02-30T00:00:00Z", "2020-12-01T00:00:00.5Z", "2020-12-01"
StartDateValues ==
  {JString(<<"n", "o", "t", "D", "a", "t", "e">>),
   JString(<<"2", "0", "1", "8", "-", "0", "1", "-", "0", "1", "T", "1", "2", ":", "0", "0", ":", "0", "0", "+", "0", "1", ":", "0", "0">>),
   JString(<<"2", "0", "2", "0", "-", "1", "2", "-", "0", "1", "T", "0", ":", "0", "0", ":", "0", "0", "Z">>),
   JString(<<"2", "0", "2", "0", "-", "0", "2", "-", "3", "0", "T", "0", "0", ":", "0", "0", ":", "0", "0", "Z">>),
   JString(<<"2", "0", "2", "0", "-", "1", "2", "-", "0", "1", "T", "0", "0", ":", "0", "0", ":", "0", "0", ".", "5", "Z">>),
   JString(<<"2", "0", "2", "0", "-", "1", "2", "-", "0", "1">>)}

\* the valid request with one member replaced
Objects ==
  {ValidMembers}
  \cup {[ValidMembers EXCEPT !.loanAmount = v] : v \in LoanAmountValues}
  \cup {[ValidMembers EXCEPT !.nominalRate = v] : v \in NominalRateValues}
  \cup {[ValidMembers EXCEPT !.duration = v] : v \in DurationValues}
  \cup {[ValidMembers EXCEPT !.startDate = v] : v \in StartDateValues}

\* an empty body, "{notvalidjson]", null, an array, one request object, and
\* the valid request object followed by bytes that are no JSON
Bodies ==
  {<< >>, <<Garbage>>, <<JTopNull>>, <<JArray>>,
   <<JObject(ValidMembers), Garbage>>}
  \cup {<<JObject(o)>> : o \in Objects}

Methods == {MethodPost, "GET", "PUT"}

\* a payment of an injected plan, its amounts given as decimals
InjectedPayment(date, amount, interest, principal, initial, remaining) ==
  [Date |-> date, PaymentAmount |-> amount, Interest |-> interest,
   Principal |-> principal, InitialOutstandingPrincipal |-> initial,
   RemainingOutstandingPrincipal |-> remaining]

FirstTestPayment ==
  InjectedPayment(TimeDate(2018, 1, 1, 0, 0, 0, 0, UTC),
                  DecNew(100125, -2), DecNew(167, -2), DecNew(99958, -2),
                  DecNew(2000, 0), DecNew(100042, -2))

SecondTestPayment ==
  InjectedPayment(TimeDate(2018, 2, 1, 0, 0, 0, 0, UTC),
                  DecNew(100125, -2), DecNew(83, -2), DecNew(100042, -2),
                  DecNew(100042, -2), DecNew(0, 0))

\* a payment dated 2018-01-01T12:00:00+01:00 of -0.50, 0.005, 2 * 10^3,
\* 1001.00 and 0
ZonedPayment ==
  InjectedPayment(TimeDate(2018, 1, 1, 12, 0, 0, 0, 3600),
                  DecNew(-50, -2), DecNew(5, -3), DecNew(2, 3),
                  DecNew(100100, -2), DecNew(0, 0))

InjectedPlans ==
  {<< >>, <<FirstTestPayment>>, <<FirstTestPayment, SecondTestPayment>>,
   <<ZonedPayment, FirstTestPayment>>}

\* errors.New("injected generic error")
GenericError ==
  [sentinel |-> "other", param |-> "injected generic error", value |-> << >>]

\* loan.ErrInvalidParameter itself
SentinelError == [sentinel |-> ErrInvalidParameter, param |-> "", value |-> << >>]

InjectedErrors ==
  {NilError, SentinelError, WrapInvalid("duration", << >>), GenericError}

Creators ==
  {LoanCreatePlan} \cup {Inject(p, e) : p \in InjectedPlans, e \in InjectedErrors}

\* concurrent calls of the package: each caller runs one call, step by
\* step, with its own arguments and locals
NumCallers == 2

Callers == 1..NumCallers

MaxConcDuration == 2

ConcDurations == -1..MaxConcDuration

\* 2018-01-01T00:00:00Z and 2020-12-28T12:00:00+01:00
ConcStartDates ==
  {TimeDate(2018, 1, 1, 0, 0, 0, 0, UTC), TimeDate(2020, 12, 28, 12, 0, 0, 0, 3600)}

\* a caller that has not called yet
IdleThread ==
  [pc |-> "idle", fn |-> "", totalLoanAmount |-> DecZero,
   annualInterestRate |-> DecZero, durationInMonths |-> 0, start |-> ZeroTime,
   payments |-> 0, i |-> 0, out |-> NoCall]

\* variant: the payments of every call live in one package-level slice
makeSliceShared(caller) == 1

\* make([]Payment, durationInMonths) gives each call memory of its own,
\* named here by the caller
makeSlice(caller) == caller

Init ==
  /\ pc = "idle"
  /\ fn = ""
  /\ totalLoanAmount = DecZero
  /\ annualInterestRate = DecZero
  /\ durationInMonths = 0
  /\ start = ZeroTime
  /\ out = NoCall
  /\ creator = LoanCreatePlan
  /\ method = ""
  /\ body = << >>
  /\ res = NoResponse
  /\ decoded = FALSE
  /\ calls = << >>
  /\ threads = [c \in Callers |-> IdleThread]
  /\ heap = [c \in Callers |-> << >>]

CallCreatePlan ==
  /\ pc = "idle"
  /\ \E a \in Amounts, r \in Rates, d \in Durations, s \in StartDates :
       /\ fn' = "CreatePlan"
       /\ totalLoanAmount' = a
       /\ annualInterestRate' = r
       /\ durationInMonths' = d
       /\ start' = s
       /\ out' = CreatePlan(a, r, d, s)
  /\ pc' = IF out'.kind = "panic" THEN "panicked" ELSE "returned"
  /\ UNCHANGED <<creator, method, body, res, decoded, calls, threads, heap>>

CallCalculateAnnuity ==
  /\ pc = "idle"
  /\ \E a \in Amounts, r \in Rates, d \in Durations :
       /\ fn' = "CalculateAnnuity"
       /\ totalLoanAmount' = a
       /\ annualInterestRate' = r
       /\ durationInMonths' = d
       /\ out' = CalculateAnnuity(a, r, d)
  /\ start' = start
  /\ pc' = IF out'.kind = "panic" THEN "panicked" ELSE "returned"
  /\ UNCHANGED <<creator, method, body, res, decoded, calls, threads, heap>>

\* one request served by the handler that New(creator) returns
HandleRequest ==
  /\ pc = "idle"
  /\ \E c \in Creators, m \in Methods, b \in Bodies :
       \E h \in {ServeLoanPlan(c, m, b)} :
         /\ fn' = "ServeLoanPlan"
         /\ creator' = c
         /\ method' = m
         /\ body' = b
         /\ res' = h.res
         /\ decoded' = h.decoded
         /\ calls' = h.calls
         /\ pc' = IF h.res = NoResponse THEN "panicked" ELSE "responded"
  /\ UNCHANGED <<totalLoanAmount, annualInterestRate, durationInMonths,
                 start, out, threads, heap>>

Next == CallCreatePlan \/ CallCalculateAnnuity \/ HandleRequest

Spec == Init /\ [][Next]_vars

\* the arguments of a call are kept by value in the caller's frame
Frame(c, f, a, r, d, s) ==
  [threads[c] EXCEPT !.fn = f, !.totalLoanAmount = a,
                     !.annualInterestRate = r, !.durationInMonths = d,
                     !.start = s]

\* CreatePlan, loan.go:49: the slice is made, or make panics
ConcCreatePlanMake(c) ==
  /\ threads[c].pc = "idle"
  /\ \E d \in ConcDurations, s \in ConcStartDates :
       LET t == Frame(c, "CreatePlan", DecNew(50000, -1), DecNew(50, -1), d, s)
       IN IF d < 0
          THEN /\ threads' = [threads EXCEPT ![c] =
                   [t EXCEPT !.pc = "panicked",
                             !.out = Panicked("makeslice: len out of range")]]
               /\ heap' = heap
          ELSE /\ threads' = [threads EXCEPT ![c] =
                   [t EXCEPT !.pc = "loop", !.payments = makeSlice(c), !.i = 0]]
               /\ heap' = [heap EXCEPT ![makeSlice(c)] =
                   [k \in 1..d |-> Payment(ZeroTime)]]
  /\ UNCHANGED <<pc, fn, totalLoanAmount, annualInterestRate,
                 durationInMonths, start, out, creator, method, body, res,
                 decoded, calls>>

\* CreatePlan, loan.go:51-58: one turn of the loop
ConcCreatePlanLoop(c) ==
  /\ threads[c].pc = "loop"
  /\ threads[c].i < threads[c].durationInMonths
  /\ heap' = [heap EXCEPT ![threads[c].payments][threads[c].i + 1] =
                Payment(paymentDate(threads[c].start, threads[c].i))]
  /\ threads' = [threads EXCEPT ![c].i = @ + 1]
  /\ UNCHANGED <<pc, fn, totalLoanAmount, annualInterestRate,
                 durationInMonths, start, out, creator, method, body, res,
                 decoded, calls>>

\* CreatePlan, loan.go:59: return payments, nil
ConcCreatePlanReturn(c) ==
  /\ threads[c].pc = "loop"
  /\ threads[c].i >= threads[c].durationInMonths
  /\ threads' = [threads EXCEPT ![c].pc = "returned",
                                ![c].out = Returned(threads[c].payments, NilError)]
  /\ UNCHANGED <<pc, fn, totalLoanAmount, annualInterestRate,
                 durationInMonths, start, out, creator, method, body, res,
                 decoded, calls, heap>>

\* CalculateAnnuity is entered with its arguments
ConcAnnuityCall(c) ==
  /\ threads[c].pc = "idle"
  /\ \E d \in {0, 1} :
       threads' = [threads EXCEPT ![c] =
         [Frame(c, "CalculateAnnuity", DecNew(50000, -1), DecNew(50, -1), d,
                ZeroTime)
            EXCEPT !.pc = "compute"]]
  /\ UNCHANGED <<pc, fn, totalLoanAmount, annualInterestRate,
                 durationInMonths, start, out, creator, method, body, res,
                 decoded, calls, heap>>

\* CalculateAnnuity, loan.go:74-110: the checks and the annuity, from the
\* caller's own arguments and locals
ConcAnnuityReturn(c) ==
  /\ threads[c].pc = "compute"
  /\ threads' = [threads EXCEPT ![c].pc = "returned",
                                ![c].out =
                                  CalculateAnnuity(threads[c].totalLoanAmount,
                                                   threads[c].annualInterestRate,
                                                   threads[c].durationInMonths)]
  /\ UNCHANGED <<pc, fn, totalLoanAmount, annualInterestRate,
                 durationInMonths, start, out, creator, method, body, res,
                 decoded, calls, heap>>

ConcNext ==
  \E c \in Callers :
    \/ ConcCreatePlanMake(c)
    \/ ConcCreatePlanLoop(c)
    \/ ConcCreatePlanReturn(c)
    \/ ConcAnnuityCall(c)
    \/ ConcAnnuityReturn(c)

ConcSpec == Init /\ [][ConcNext]_vars

\* ------------------------------------------------------------------------
\* Properties
\* ------------------------------------------------------------------------
IsNil(err) == err.sentinel = NilError.sentinel

CreatePlanCalled == pc # "idle" /\ fn = "CreatePlan"

CalculateAnnuityCalled == pc # "idle" /\ fn = "CalculateAnnuity"

\* totalLoanAmount > 0, annualInterestRate > 0, durationInMonths > 0
ValidLoan ==
  /\ DecSign(totalLoanAmount) > 0
  /\ DecSign(annualInterestRate) > 0
  /\ durationInMonths > 0

\* a valid loan starting on a day of the month no later than the 28th
ValidInput == ValidLoan /\ start.day <= 28

\* the call returned a schedule and a nil error
PlanReturned == out.kind = "return" /\ IsNil(out.err)

\* the call returned no payments and an error matching ErrInvalidParameter
PlanRejected ==
  /\ out.kind = "return"
  /\ ErrorsIs(out.err, ErrInvalidParameter)
  /\ Len(out.value) = 0

\* C1: for every valid input the last payment of the schedule returned by
\* CreatePlan has a remaining outstanding principal of exactly zero.
C1_LastRemainingIsZero ==
  (CreatePlanCalled /\ ValidInput) =>
    /\ PlanReturned
    /\ Len(out.value) >= 1
    /\ DecEqual(out.value[Len(out.value)].RemainingOutstandingPrincipal,
                NewFromInt(0))

C1_Witness ==
  /\ CreatePlanCalled /\ ValidInput /\ PlanReturned
  /\ durationInMonths >= 2
  /\ Len(out.value) = durationInMonths
  /\ DecSign(out.value[Len(out.value)].RemainingOutstandingPrincipal) = 0

\* C2: CreatePlan returns no payments and an error matching
\* ErrInvalidParameter whenever the duration, the loan amount or the
\* interest rate is zero or negative; it never returns a nil error and
\* never aborts for such inputs.
C2_RejectsNonPositive ==
  (CreatePlanCalled /\ ~ValidLoan) => PlanRejected

\* C3: CalculateAnnuity returns an error matching ErrInvalidParameter and a
\* zero decimal whenever the duration, the loan amount or the interest rate
\* is zero or negative, and returns a nil error whenever all three are
\* strictly positive.
C3_AnnuityErrorIffInvalid ==
  CalculateAnnuityCalled =>
    /\ ~ValidLoan =>
         /\ out.kind = "return"
         /\ ErrorsIs(out.err, ErrInvalidParameter)
         /\ DecSign(out.value) = 0
    /\ ValidLoan => (out.kind = "return" /\ IsNil(out.err))

\* C4: CreatePlan returns no payments and an error matching
\* ErrInvalidParameter whenever the start date falls on day 29, 30 or 31 of
\* its month, the other parameters being valid.
C4_RejectsDay29To31 ==
  (CreatePlanCalled /\ ValidLoan /\ start.day \in {29, 30, 31}) => PlanRejected

\* C5: for every start date on day 1..28 of its month and every positive
\* loan amount, interest rate and duration, CreatePlan returns a schedule
\* and a nil error.
C5_ValidInputSucceeds ==
  (CreatePlanCalled /\ ValidInput) => (PlanReturned /\ Len(out.value) >= 1)

C5_Witness ==
  /\ CreatePlanCalled /\ ValidInput /\ start.day = 28
  /\ PlanReturned /\ Len(out.value) >= 1

\* C6: for every valid input the schedule returned by CreatePlan has
\* exactly durationInMonths payments.
C6_LengthIsDuration ==
  (CreatePlanCalled /\ ValidInput) =>
    (PlanReturned /\ Len(out.value) = durationInMonths)

C6_Witness ==
  /\ CreatePlanCalled /\ ValidInput /\ PlanReturned
  /\ durationInMonths = LongDuration
  /\ Len(out.value) = LongDuration

\* C7: in every schedule returned for valid input, the remaining
\* outstanding principal of each payment equals the initial outstanding
\* principal of the payment that follows it.
C7_BalanceIsCarried ==
  (CreatePlanCalled /\ ValidInput /\ PlanReturned) =>
    \A i \in 1..(Len(out.value) - 1) :
      DecEqual(out.value[i].RemainingOutstandingPrincipal,
               out.value[i + 1].InitialOutstandingPrincipal)

C7_Witness ==
  /\ CreatePlanCalled /\ ValidInput /\ PlanReturned
  /\ Len(out.value) >= 3
  /\ DecEqual(out.value[2].RemainingOutstandingPrincipal,
              out.value[3].InitialOutstandingPrincipal)

\* C8: in every schedule returned for valid input, the payment amount of
\* each payment equals its principal plus its interest.
C8_AmountIsPrincipalPlusInterest ==
  (CreatePlanCalled /\ ValidInput /\ PlanReturned) =>
    \A i \in 1..Len(out.value) :
      DecEqual(out.value[i].PaymentAmount,
               DecAdd(out.value[i].Principal, out.value[i].Interest))

C8_Witness ==
  /\ CreatePlanCalled /\ ValidInput /\ PlanReturned
  /\ Len(out.value) >= 2
  /\ DecEqual(out.value[2].PaymentAmount,
              DecAdd(out.value[2].Principal, out.value[2].Interest))

\* C9: in every schedule returned for valid input, the initial outstanding
\* principal of the first payment equals totalLoanAmount, and every payment
\* has remaining = initial - principal.
C9_BalanceStartsAtLoanAmount ==
  (CreatePlanCalled /\ ValidInput /\ PlanReturned /\ Len(out.value) >= 1) =>
    /\ DecEqual(out.value[1].InitialOutstandingPrincipal, totalLoanAmount)
    /\ \A i \in 1..Len(out.value) :
         DecEqual(out.value[i].RemainingOutstandingPrincipal,
                  DecSub(out.value[i].InitialOutstandingPrincipal,
                         out.value[i].Principal))

\* months since year 0 of a date
MonthIndex(t) == t.year * 12 + (t.month - 1)

AtMidnightUTC(t) ==
  t.hour = 0 /\ t.min = 0 /\ t.sec = 0 /\ t.nsec = 0 /\ t.offset = UTC

\* C10: for every valid input, payment i (0-based) is dated i months after
\* the start's year and month, on the start's day of the month, at
\* 00:00:00 UTC, months past December falling in the following years;
\* start 2020-12-28 with 3 months gives 2020-12-28, 2021-01-28, 2021-02-28.
C10_DatesAdvanceByMonth ==
  (CreatePlanCalled /\ ValidInput /\ PlanReturned) =>
    /\ \A i \in 1..Len(out.value) :
         /\ out.value[i].Date.month \in 1..12
         /\ MonthIndex(out.value[i].Date) = MonthIndex(start) + (i - 1)
         /\ out.value[i].Date.day = start.day
         /\ AtMidnightUTC(out.value[i].Date)
    /\ (start.year = 2020 /\ start.month = 12 /\ start.day = 28
        /\ durationInMonths = 3) =>
         /\ Len(out.value) = 3
         /\ <<out.value[1].Date.year, out.value[1].Date.month,
              out.value[1].Date.day>> = <<2020, 12, 28>>
         /\ <<out.value[2].Date.year, out.value[2].Date.month,
              out.value[2].Date.day>> = <<2021, 1, 28>>
         /\ <<out.value[3].Date.year, out.value[3].Date.month,
              out.value[3].Date.day>> = <<2021, 2, 28>>

C10_Witness ==
  /\ CreatePlanCalled /\ ValidInput /\ PlanReturned
  /\ start.year = 2020 /\ start.month = 12 /\ start.day = 28
  /\ durationInMonths = LongDuration
  /\ Len(out.value) = LongDuration
  /\ out.value[LongDuration].Date.year > 2021

\* the payment dates of a returned schedule
DatesOf(plan) == [i \in 1..Len(plan) |-> plan[i].Date]

\* the same calendar day read at another clock
AtClock(t, c) == [t EXCEPT !.hour = c[1], !.offset = c[2]]

\* C11: two CreatePlan calls whose start dates share year, month and day as
\* written in the start's own offset, and differ only in time of day or
\* offset, return identical payment dates, each at 00:00:00 UTC; a start of
\* 2018-01-01T12:00:00+01:00 gives a first payment date of
\* 2018-01-01T00:00:00Z.
C11_ClockIsIgnored ==
  (CreatePlanCalled /\ PlanReturned) =>
    /\ \A c \in Clocks :
         LET other == CreatePlan(totalLoanAmount, annualInterestRate,
                                 durationInMonths, AtClock(start, c))
         IN /\ other.kind = "return"
            /\ IsNil(other.err)
            /\ DatesOf(other.value) = DatesOf(out.value)
    /\ \A i \in 1..Len(out.value) : AtMidnightUTC(out.value[i].Date)
    /\ (start.year = 2018 /\ start.month = 1 /\ start.day = 1
        /\ start.hour = 12 /\ start.offset = 3600 /\ durationInMonths >= 1) =>
         out.value[1].Date =
           [year |-> 2018, month |-> 1, day |-> 1, hour |-> 0, min |-> 0,
            sec |-> 0, nsec |-> 0, offset |-> UTC]

C11_Witness ==
  /\ CreatePlanCalled /\ PlanReturned
  /\ start.year = 2018 /\ start.month = 1 /\ start.day = 1
  /\ start.hour = 12 /\ start.offset = 3600
  /\ durationInMonths = MaxDuration
  /\ out.value[1].Date.day = 1 /\ out.value[1].Date.hour = 0
  /\ out.value[MaxDuration].Date.month = MaxDuration

\* payment i is dated year-month-day at 00:00:00 UTC and carries the five
\* amounts given in hundredths
PaymentIs(p, year, month, day, amount, interest, principal, initial, remaining) ==
  /\ p.Date = [year |-> year, month |-> month, day |-> day, hour |-> 0,
               min |-> 0, sec |-> 0, nsec |-> 0, offset |-> UTC]
  /\ DecEqual(p.PaymentAmount, DecNew(amount, -2))
  /\ DecEqual(p.Interest, DecNew(interest, -2))
  /\ DecEqual(p.Principal, DecNew(principal, -2))
  /\ DecEqual(p.InitialOutstandingPrincipal, DecNew(initial, -2))
  /\ DecEqual(p.RemainingOutstandingPrincipal, DecNew(remaining, -2))

\* C12: CreatePlan(2000.0, 1.0, 2, 2018-01-01T00:00:00Z) returns exactly two
\* payments: {2018-01-01, 1001.25, 1.67, 999.58, 2000, 1000.42} and
\* {2018-02-01, 1001.25, 0.83, 1000.42, 1000.42, 0}.
C12_TwoMonthPlan ==
  (/\ CreatePlanCalled
   /\ DecEqual(totalLoanAmount, DecNew(20000, -1))
   /\ DecEqual(annualInterestRate, DecNew(10, -1))
   /\ durationInMonths = 2
   /\ start = [year |-> 2018, month |-> 1, day |-> 1, hour |-> 0, min |-> 0,
               sec |-> 0, nsec |-> 0, offset |-> UTC]) =>
    /\ PlanReturned
    /\ Len(out.value) = 2
    /\ PaymentIs(out.value[1], 2018, 1, 1, 100125, 167, 99958, 200000, 100042)
    /\ PaymentIs(out.value[2], 2018, 2, 1, 100125, 83, 100042, 100042, 0)

\* C13: CalculateAnnuity(5000.0, 5.0, 24) returns 219.36 with a nil error.
C13_AnnuityOfTestLoan ==
  (/\ CalculateAnnuityCalled
   /\ DecEqual(totalLoanAmount, DecNew(50000, -1))
   /\ DecEqual(annualInterestRate, DecNew(50, -1))
   /\ durationInMonths = AnnuityTestDuration) =>
    /\ out.kind = "return"
    /\ IsNil(out.err)
    /\ DecEqual(out.value, DecNew(21936, -2))

C13_Witness ==
  /\ CalculateAnnuityCalled
  /\ DecEqual(totalLoanAmount, DecNew(50000, -1))
  /\ DecEqual(annualInterestRate, DecNew(50, -1))
  /\ durationInMonths = AnnuityTestDuration
  /\ pc = "returned"
  /\ out.value = DecNew(21936, -2)

\* C14: every CreatePlan call ends in exactly one of two outcomes: a nil
\* error with the complete schedule, or a non-nil error with no payments;
\* it never returns an error together with a partial or full schedule.
C14_ScheduleOrError ==
  CreatePlanCalled =>
    /\ out.kind = "return"
    /\ \/ IsNil(out.err) /\ Len(out.value) = durationInMonths
       \/ ~IsNil(out.err) /\ Len(out.value) = 0

\* C20: for every input with totalLoanAmount > 0, annualInterestRate > 0 and
\* durationInMonths > 0, CalculateAnnuity completes and returns a nil
\* error: the denominator 1 - (1 + r)^(-n), computed at 16-place
\* precision, is never zero, rates such as 1e-20 included.
C20_AnnuityIsTotal ==
  (CalculateAnnuityCalled /\ ValidLoan) =>
    /\ pc = "returned"
    /\ out.kind # "panic"
    /\ IsNil(out.err)

\* a request was served by the handler
Served == pc # "idle" /\ fn = "ServeLoanPlan"

\* the text of a message is not ""
NonEmptyText(m) == \E i \in 1..Len(m) : m[i] # ""

\* the body is {"error": {"message": m}} with m non-empty
IsErrorBody(b) ==
  /\ DOMAIN b = {"error"}
  /\ DOMAIN b.error = {"message"}
  /\ NonEmptyText(b.error.message)

\* the body is exactly one JSON value
IsJSON(b) == Len(b) = 1 /\ b[1].json # "garbage"

\* the request fields as the text and number written in the body's object
FieldsParse(m) ==
  /\ m.loanAmount.type = "string" /\ NewFromString(m.loanAmount.text).ok
  /\ m.nominalRate.type = "string" /\ NewFromString(m.nominalRate.text).ok
  /\ m.duration.type = "number"
  /\ m.startDate.type = "string" /\ ParseRFC3339(m.startDate.text).ok

\* a POST whose body is one JSON object with a decimal loanAmount and
\* nominalRate, an integer duration and a startDate that parses
WellFormedPost ==
  /\ method = MethodPost
  /\ IsJSON(body)
  /\ body[1].json = "object"
  /\ FieldsParse(body[1].members)

\* C15: for a well-formed POST /loan-plan, a creator error matching
\* ErrInvalidParameter (the sentinel itself or an error wrapping it) is
\* answered 400 and any other creator error 500; either way the body is
\* {"error": {"message": m}} with m non-empty and no borrowerPayments.
C15_CreatorErrorStatus ==
  (/\ Served /\ WellFormedPost
   /\ creator.kind = "inject" /\ ~IsNil(creator.err)) =>
    /\ Len(calls) = 1
    /\ res.status = (IF ErrorsIs(creator.err, ErrInvalidParameter)
                     THEN StatusBadRequest ELSE StatusInternalServerError)
    /\ IsErrorBody(res.body)
    /\ "borrowerPayments" \notin DOMAIN res.body

C15_Witness ==
  /\ Served /\ WellFormedPost
  /\ creator.kind = "inject"
  /\ creator.err = WrapInvalid("duration", << >>)
  /\ creator.payments # << >>
  /\ res.status = StatusBadRequest

\* a timestamp of RFC 3339: what time.Parse reads, written with a two
\* digit hour and "." before a fraction
IsRFC3339(s) ==
  /\ ParseRFC3339(s).ok
  /\ At(s, 14) = ":"
  /\ At(s, 20) \in {".", "Z", "+", "-"}

\* the body is empty or no JSON, or its loanAmount or nominalRate is no
\* decimal string, or its startDate is no RFC 3339 timestamp
MalformedBody ==
  \/ body = << >>
  \/ ~IsJSON(body)
  \/ /\ body[1].json = "object"
     /\ \/ ~NewFromString(body[1].members.loanAmount.text).ok
        \/ ~NewFromString(body[1].members.nominalRate.text).ok
        \/ ~IsRFC3339(body[1].members.startDate.text)

\* C16: a POST whose body is empty or not valid JSON, or whose loanAmount
\* or nominalRate is not a decimal string, or whose startDate is not an
\* RFC 3339 timestamp, is answered 400 with a non-empty error message, and
\* the plan creator is never invoked.
C16_MalformedIsBadRequest ==
  (Served /\ method = MethodPost /\ MalformedBody) =>
    /\ res.status = StatusBadRequest
    /\ IsErrorBody(res.body)
    /\ calls = << >>

\* C17: a request with any method other than POST is answered 405 with an
\* error body carrying a non-empty message, without the body being parsed
\* or the plan creator invoked.
C17_OnlyPostIsAllowed ==
  (Served /\ method # MethodPost) =>
    /\ res.status = StatusMethodNotAllowed
    /\ IsErrorBody(res.body)
    /\ ~decoded
    /\ calls = << >>

C17_Witness ==
  /\ Served /\ method = "GET"
  /\ body = <<JObject(ValidMembers)>>
  /\ creator = Inject(<<FirstTestPayment>>, NilError)
  /\ res.status = StatusMethodNotAllowed
  /\ ~decoded

\* the plan creator was called once and returned a nil error
CreatorSucceeded ==
  /\ Len(calls) = 1
  /\ calls[1].result.kind = "return"
  /\ IsNil(calls[1].result.err)

BorrowerPaymentFields ==
  {"date", "borrowerPaymentAmount", "interest", "principal",
   "initialOutstandingPrincipal", "remainingOutstandingPrincipal"}

\* text is a decimal string, without exponent, that reads back as d
IsStringOf(text, d) ==
  /\ IndexAny(text, {"e", "E"}) = 0
  /\ NewFromString(text).ok
  /\ DecEqual(NewFromString(text).d, d)

\* entry e carries the six fields of payment p as strings: the decimals as
\* decimal strings, the date as the RFC 3339 text of p.Date in its own
\* offset
IsEntryOf(e, p) ==
  /\ DOMAIN e = BorrowerPaymentFields
  /\ IsStringOf(e.borrowerPaymentAmount, p.PaymentAmount)
  /\ IsStringOf(e.interest, p.Interest)
  /\ IsStringOf(e.principal, p.Principal)
  /\ IsStringOf(e.initialOutstandingPrincipal, p.InitialOutstandingPrincipal)
  /\ IsStringOf(e.remainingOutstandingPrincipal, p.RemainingOutstandingPrincipal)
  /\ IsRFC3339(e.date)
  /\ ParseRFC3339(e.date).t = p.Date

\* the text ends in "Z": an RFC 3339 timestamp in UTC
IsUTCText(s) == s # << >> /\ s[Len(s)] = "Z"

\* C18, as the handler has it: when the plan creator succeeds the answer is
\* 200 and a borrowerPayments list with exactly one entry per returned
\* Payment, in the same order, each entry carrying that payment's six
\* fields as strings (decimals in decimal-string form, the date as RFC 3339
\* in the offset of the payment's Date, which is UTC for a Date in UTC); an
\* empty plan is answered 200 with an empty list.
C18_PaymentsAsStrings ==
  (Served /\ CreatorSucceeded) =>
    /\ res.status = StatusOK
    /\ DOMAIN res.body = {"borrowerPayments"}
    /\ Len(res.body.borrowerPayments) = Len(calls[1].result.value)
    /\ \A i \in 1..Len(calls[1].result.value) :
         /\ IsEntryOf(res.body.borrowerPayments[i], calls[1].result.value[i])
         /\ calls[1].result.value[i].Date.offset = UTC =>
              IsUTCText(res.body.borrowerPayments[i].date)
    /\ creator = Inject(<<FirstTestPayment, SecondTestPayment>>, NilError) =>
         /\ res.body.borrowerPayments[1].date = <<"2", "0", "1", "8", "-", "0", "1", "-", "0", "1", "T", "0", "0", ":", "0", "0", ":", "0", "0", "Z">>
         /\ res.body.borrowerPayments[1].borrowerPaymentAmount = <<"1", "0", "0", "1", ".", "2", "5">>
         /\ res.body.borrowerPayments[1].initialOutstandingPrincipal = <<"2", "0", "0", "0">>
         /\ res.body.borrowerPayments[2].date = <<"2", "0", "1", "8", "-", "0", "2", "-", "0", "1", "T", "0", "0", ":", "0", "0", ":", "0", "0", "Z">>
         /\ res.body.borrowerPayments[2].interest = <<"0", ".", "8", "3">>
         /\ res.body.borrowerPayments[2].remainingOutstandingPrincipal = <<"0">>

C18_Witness ==
  /\ Served /\ CreatorSucceeded
  /\ creator = Inject(<<ZonedPayment, FirstTestPayment>>, NilError)
  /\ res.status = StatusOK
  /\ Len(res.body.borrowerPayments) = 2
  /\ res.body.borrowerPayments[1].borrowerPaymentAmount = <<"-", "0", ".", "5">>
  /\ res.body.borrowerPayments[2].principal = <<"9", "9", "9", ".", "5", "8">>

\* C18 as stated: every date of the list is an RFC 3339 UTC string.
C18_DatesAreUTC ==
  (Served /\ CreatorSucceeded) =>
    /\ res.status = StatusOK
    /\ DOMAIN res.body = {"borrowerPayments"}
    /\ Len(res.body.borrowerPayments) = Len(calls[1].result.value)
    /\ \A i \in 1..Len(calls[1].result.value) :
         /\ IsEntryOf(res.body.borrowerPayments[i], calls[1].result.value[i])
         /\ IsUTCText(res.body.borrowerPayments[i].date)

\* what caller c holds as the result of its call: for CreatePlan the
\* payments its slice refers to
ResultOf(c) ==
  IF threads[c].fn = "CreatePlan"
  THEN [kind |-> "return", value |-> heap[threads[c].out.value],
        err |-> threads[c].out.err]
  ELSE threads[c].out

\* what the same call returns when it runs alone
AloneResult(c) ==
  IF threads[c].fn = "CreatePlan"
  THEN CreatePlan(threads[c].totalLoanAmount, threads[c].annualInterestRate,
                  threads[c].durationInMonths, threads[c].start)
  ELSE CalculateAnnuity(threads[c].totalLoanAmount,
                        threads[c].annualInterestRate,
                        threads[c].durationInMonths)

SameResult(x, y) ==
  /\ x.kind = y.kind
  /\ x.err.sentinel = y.err.sentinel
  /\ x.err.param = y.err.param
  /\ x.value = y.value

ArgsOf(c) ==
  <<threads[c].fn, threads[c].totalLoanAmount, threads[c].annualInterestRate,
    threads[c].durationInMonths, threads[c].start>>

\* every call that has returned holds what it returns when run alone
ReturnsAsAlone ==
  \A c \in Callers :
    threads[c].pc = "returned" => SameResult(ResultOf(c), AloneResult(c))

\* a step changes neither the arguments of a call under way nor the result
\* of a call that has returned
KeepsArgsAndResults ==
  \A c \in Callers :
    /\ threads[c].pc # "idle" => ArgsOf(c)' = ArgsOf(c)
    /\ threads[c].pc = "returned" => SameResult(ResultOf(c)', ResultOf(c))

\* C19: CreatePlan and CalculateAnnuity are deterministic and share no
\* state: calls run in any interleaving each return exactly the result the
\* same call returns when run alone, and no call modifies its inputs or
\* another call's output.
C19_CallsDoNotInterfere == []ReturnsAsAlone /\ [][KeepsArgsAndResults]_vars

C19_Witness ==
  /\ \A c \in Callers : threads[c].pc = "returned"
  /\ threads[1].fn = "CreatePlan" /\ threads[2].fn = "CreatePlan"
  /\ threads[1].durationInMonths = MaxConcDuration
  /\ threads[2].durationInMonths = 1
  /\ threads[1].start # threads[2].start
  /\ Len(heap[threads[1].out.value]) = MaxConcDuration
  /\ Len(heap[threads[2].out.value]) = 1

\* ------------------------------------------------------------------------
\* The annuity formula in exact rational arithmetic, for decimals whose
\* rate is rm * 10^re and whose amount is am * 10^ae:
\*   r = p / q with p = rm * 10^max(re, 0) and q = 1200 * 10^max(-re, 0)
\*   annuity = amount * p * (q + p)^n / (q * ((q + p)^n - q^n))
\* ------------------------------------------------------------------------
RECURSIVE BPow(_, _)
BPow(a, n) == IF n = 0 THEN <<1>> ELSE BMul(a, BPow(a, n - 1))

\* num / den rounded to the nearest integer, ties to the even one
BQuoHalfEven(num, den) ==
  LET qr  == BQuoRem(num, den)
      cmp == BCmp(BMulLimb(qr[2], 2), den)
  IN IF cmp > 0 \/ (cmp = 0 /\ BIsOdd(qr[1]))
     THEN BAdd(qr[1], <<1>>)
     ELSE qr[1]

\* the exact annuity of a valid loan, rounded half-even to `places` places
\* in one step
ExactAnnuity(amount, rate, n, places) ==
  LET p     == IF rate.exp > 0 THEN BShift(rate.mag, rate.exp) ELSE rate.mag
      q     == BShift(BFromNat(1200), IF rate.exp < 0 THEN -rate.exp ELSE 0)
      am    == IF amount.exp > 0 THEN BShift(amount.mag, amount.exp)
               ELSE amount.mag
      ad    == BShift(<<1>>, IF amount.exp < 0 THEN -amount.exp ELSE 0)
      grown == BPow(BAdd(q, p), n)
      num   == BShift(BMul(BMul(am, p), grown), places)
      den   == BMul(BMul(ad, q), BSub(grown, BPow(q, n)))
  IN DecMake(FALSE, BQuoHalfEven(num, den), -places)

\* d has no digit past `places` decimal places
HasAtMostPlaces(d, places) == DecEqual(d, DecRescale(d, -places))

\* C21: for every valid input CalculateAnnuity returns
\* (totalLoanAmount * r) / (1 - (1 + r)^(-durationInMonths)) with
\* r = annualInterestRate / 100 / 12, rounded half-even to 2 decimal places,
\* the rounding being applied to the final value only; the result never has
\* more than 2 decimal places.  Stated of the calls that return.
C21_AnnuityIsExactHalfEven ==
  (CalculateAnnuityCalled /\ ValidLoan /\ out.kind = "return") =>
    /\ IsNil(out.err)
    /\ HasAtMostPlaces(out.value, precision)
    /\ DecEqual(out.value,
                ExactAnnuity(totalLoanAmount, annualInterestRate,
                             durationInMonths, precision))

\* what CalculateAnnuity does for the loan of the call in progress
AnnuityOfCall ==
  CalculateAnnuity(totalLoanAmount, annualInterestRate, durationInMonths)

\* the annuity less the interest of payment p exceeds its outstanding balance
ExceedsOutstanding(annuity, p) ==
  DecCmp(DecSub(annuity, p.Interest), p.InitialOutstandingPrincipal) > 0

\* C22: in every schedule for valid input each payment's Principal is
\* min(annuity - Interest, InitialOutstandingPrincipal), and annuity - Interest
\* exceeds the outstanding balance on the final payment only.
C22_PrincipalIsClampedRest ==
  (CreatePlanCalled /\ ValidInput /\ PlanReturned) =>
    (AnnuityOfCall.kind = "return" =>
       \A i \in 1..Len(out.value) :
         /\ DecEqual(out.value[i].Principal,
                     IF ExceedsOutstanding(AnnuityOfCall.value, out.value[i])
                     THEN out.value[i].InitialOutstandingPrincipal
                     ELSE DecSub(AnnuityOfCall.value, out.value[i].Interest))
         /\ ExceedsOutstanding(AnnuityOfCall.value, out.value[i])
              => i = Len(out.value))

\* interest is (rate / 100) * 30 * outstanding / 360, that is
\* rate * outstanding / 1200, rounded to 2 decimal places: it has no third
\* place and 1200 * interest is within 6 (1200 * 0.005) of rate * outstanding
IsMonthlyInterest(interest, rate, outstanding) ==
  /\ HasAtMostPlaces(interest, 2)
  /\ DecCmp(DecAbs(DecSub(DecMul(NewFromInt(1200), interest),
                          DecMul(rate, outstanding))),
            NewFromInt(6)) <= 0

\* C23: in every schedule for valid input each payment's Interest is
\* (annualInterestRate / 100) * 30 * InitialOutstandingPrincipal / 360
\* rounded to 2 decimal places, on that payment's own initial balance.
C23_InterestOnOwnBalance ==
  (CreatePlanCalled /\ ValidInput /\ PlanReturned) =>
    \A i \in 1..Len(out.value) :
      IsMonthlyInterest(out.value[i].Interest, annualInterestRate,
                        out.value[i].InitialOutstandingPrincipal)

C23_Witness ==
  /\ CreatePlanCalled /\ ValidInput /\ PlanReturned
  /\ Len(out.value) >= 2
  /\ DecEqual(totalLoanAmount, DecNew(20000, -1))
  /\ IsMonthlyInterest(out.value[2].Interest, annualInterestRate,
                       out.value[2].InitialOutstandingPrincipal)

\* err wraps ErrInvalidParameter, names the parameter and carries its value
Reports(err, param, value) ==
  /\ ErrorsIs(err, ErrInvalidParameter)
  /\ err.param = param
  /\ err.value = value

\* C24: when several parameters of CalculateAnnuity are invalid at once the
\* error reports the first violation in the order duration, loan amount,
\* interest rate; every such error names the failing parameter and its
\* offending value and matches ErrInvalidParameter through errors.Is.
C24_FirstViolationReported ==
  (CalculateAnnuityCalled /\ ~ValidLoan) =>
    /\ out.kind = "return"
    /\ IF durationInMonths <= 0
       THEN Reports(out.err, "duration", durationInMonths)
       ELSE IF DecSign(totalLoanAmount) <= 0
       THEN Reports(out.err, "loan amount", totalLoanAmount)
       ELSE Reports(out.err, "interest rate", annualInterestRate)

\* all three parameters are invalid and the duration is the one reported
C24_Witness ==
  /\ CalculateAnnuityCalled
  /\ durationInMonths < 0
  /\ DecSign(totalLoanAmount) < 0
  /\ DecSign(annualInterestRate) < 0
  /\ out.kind = "return"
  /\ Reports(out.err, "duration", durationInMonths)

\* the monthly rate as CalculateAnnuity computes it: by 12, then by 100
MonthlyRateUsed(rate) ==
  fromPercentToDecimal(calculateMonthlyInterestRate(rate))

\* the monthly rate in the specified order: by 100, then by 12
MonthlyRateSpecified(rate) ==
  calculateMonthlyInterestRate(fromPercentToDecimal(rate))

C26_AnnuityErrorIsReturned ==
  (CreatePlanCalled /\ ~ValidLoan) =>
    /\ ~IsNil(AnnuityOfCall.err)
    /\ out.kind = "return"
    /\ out.err = AnnuityOfCall.err
    /\ Len(out.value) = 0

\* 0 <= Principal and 0 <= Remaining <= Initial <= loan for the payment p
BalanceInRange(p, loan) ==
  /\ DecSign(p.Principal) >= 0
  /\ DecSign(p.RemainingOutstandingPrincipal) >= 0
  /\ LessThanOrEqual(p.RemainingOutstandingPrincipal,
                     p.InitialOutstandingPrincipal)
  /\ LessThanOrEqual(p.InitialOutstandingPrincipal, loan)

\* C27: in every schedule for valid input every payment has 0 <= Principal
\* and 0 <= RemainingOutstandingPrincipal <= InitialOutstandingPrincipal <=
\* totalLoanAmount, and the balance never increases from one payment to the
\* next.
C27_BalanceNeverNegativeNorGrowing ==
  (CreatePlanCalled /\ ValidInput /\ PlanReturned) =>
    /\ \A i \in 1..Len(out.value) : BalanceInRange(out.value[i], totalLoanAmount)
    /\ \A i \in 1..(Len(out.value) - 1) :
         LessThanOrEqual(out.value[i + 1].InitialOutstandingPrincipal,
                         out.value[i].InitialOutstandingPrincipal)

\* the loan of 0.01 at 5.0 over 3 months, whose annuity (0.00) is not
\* larger than one month's interest on the loan rounded to 2 places (0.00)
C27_Witness ==
  /\ CreatePlanCalled /\ ValidInput /\ PlanReturned
  /\ DecEqual(totalLoanAmount, DecNew(1, -2))
  /\ durationInMonths = MaxDuration
  /\ Len(out.value) = MaxDuration
  /\ AnnuityOfCall.kind = "return"
  /\ LessThanOrEqual(AnnuityOfCall.value,
                     DecRound(DecDiv(DecMul(annualInterestRate, totalLoanAmount),
                                     NewFromInt(1200)), 2))
  /\ \A i \in 1..Len(out.value) : BalanceInRange(out.value[i], totalLoanAmount)

\* n payments of the annuity repay at least the loan
Repays(annuity, n, loan) ==
  LessThanOrEqual(loan, DecMul(NewFromInt(n), annuity))

\* n payments of the annuity fall short of the loan by less than 0.01 each
RepaysWithinACent(annuity, n, loan) ==
  DecCmp(DecMul(NewFromInt(n), DecAdd(annuity, DecNew(1, -2))), loan) > 0

\* a loan of ordinary size: a rate of 0.0012 at least, an amount of
\* 1000000 at most, 600 months at most
OrdinaryLoan ==
  /\ ValidLoan
  /\ LessThanOrEqual(DecNew(12, -4), annualInterestRate)
  /\ LessThanOrEqual(totalLoanAmount, NewFromInt(1000000))
  /\ durationInMonths <= 600

C29_PaymentAmountIsAnnuity ==
  (CreatePlanCalled /\ ValidInput /\ PlanReturned) =>
    (AnnuityOfCall.kind = "return" =>
       \A i \in 1..Len(out.value) :
         (i < Len(out.value)
          \/ ~ExceedsOutstanding(AnnuityOfCall.value, out.value[i]))
           => DecEqual(out.value[i].PaymentAmount, AnnuityOfCall.value))

\* the call hands over what the members m of the request object say
CalledWith(call, m) ==
  /\ call.totalLoanAmount = NewFromString(m.loanAmount.text).d
  /\ call.annualInterestRate = NewFromString(m.nominalRate.text).d
  /\ call.durationInMonths = m.duration.num
  /\ call.start = ParseRFC3339(m.startDate.text).t

\* C30: for every well-formed POST the handler calls the plan creator
\* exactly once, with the loan amount, nominal rate, duration and start date
\* of the request body unchanged, and writes exactly one status code.
C30_OneCallOneStatus ==
  (Served /\ WellFormedPost) =>
    /\ Len(calls) = 1
    /\ CalledWith(calls[1], body[1].members)
    /\ res # NoResponse
    /\ res.status \in {StatusOK, StatusBadRequest, StatusInternalServerError}

====
